---- MODULE Spec2Model ----
(***************************************************************************)
(* Model of the multi-bot orchestration core of MaiCore-Start:             *)
(*   BotInstance    (src/src/multi_bot/bot_instance.py)                     *)
(*   BotGroup       (src/src/multi_bot/bot_group.py)                        *)
(*   MultiBotManager(src/src/multi_bot/multi_bot_manager.py)                *)
(*   PortAllocator, BotPortManager (src/src/multi_bot/port_manager.py)      *)
(*                                                                         *)
(* Python's None is written NoPid / NoPort (0) for the integer fields the  *)
(* code only tests by truthiness, and NoMessage for error_message.         *)
(* Timestamps (start_time, stop_time, last_update) are not part of the     *)
(* state: they serialise to ISO strings and no modelled decision reads     *)
(* them.  The one datetime that matters, resource_usage["update_time"],    *)
(* is kept as the flag update_time.                                        *)
(***************************************************************************)
EXTENDS Integers, Sequences, FiniteSets, TLC

VARIABLES
    groups,           \* MultiBotManager.groups: group_name -> BotGroup
    file,             \* content of MULTI_BOT_CONFIG_FILE on disk
    allocated_ports,  \* PortAllocator.allocated_ports
    port_mappings,    \* PortAllocator.port_mappings: key -> port
    last,             \* the last call made and what it returned
    exported,         \* content of the file export_config wrote last
    instance_callbacks,  \* MultiBotManager.instance_callbacks: event -> handlers
    effects,          \* what the last call did outside the registry, in order:
                      \* handler invocations, spawns, terminations, sleeps
    removed,          \* the BotInstance object the last remove_instance popped
    detected_processes,  \* LocalBotDetector.detected_processes
    takeover_records, \* LocalBotTakeover.takeover_records
    pending,          \* allocate_port calls in progress: key -> the call's locals
    env_file          \* lines of the .env file setup_env_file works on

aux == <<exported, instance_callbacks, effects, removed, detected_processes,
         takeover_records, pending, env_file>>

vars == <<groups, file, allocated_ports, port_mappings, last, exported,
          instance_callbacks, effects, removed, detected_processes,
          takeover_records, pending, env_file>>

(***************************************************************************)
(* Bounds and input sets                                                   *)
(***************************************************************************)
NoPid == 0
NoPort == 0
NoMessage == "None"
NoKey == "-"

MaxPid == 2            \* pids handed to start() are 1..MaxPid
MaxMem == 2            \* memory_mb values handed to update_resource_usage
RangeSize == 3         \* the allocator's range is StartPort..StartPort+RangeSize-1

GroupNames == {"a", "a_b"}
InstanceIds == {"c", "b_c"}
Configs == {"cfg1", "cfg2"}
Messages == {"boom", "bang"}

\* group_config values: the launch_interval option, NoInterval when absent
NoInterval == -1
GroupConfig0 == [launch_interval |-> NoInterval]
GroupConfigs == {GroupConfig0}

Pids == 1..MaxPid
ProcessInfos == [pid : Pids]

(***************************************************************************)
(* Finite-map helpers (Python dict operations)                             *)
(***************************************************************************)
EmptyMap == [k \in {} |-> TRUE]

Put(f, k, v) == [x \in (DOMAIN f) \cup {k} |-> IF x = k THEN v ELSE f[x]]

Drop(f, k) == [x \in (DOMAIN f) \ {k} |-> f[x]]

Values(f) == {f[k] : k \in DOMAIN f}

(***************************************************************************)
(* BotInstance                                                             *)
(***************************************************************************)
EmptyUsage == [cpu_percent |-> 0, memory_mb |-> 0, update_time |-> FALSE]

\* BotInstance.__init__(instance_id, config)
BotInstance(config) ==
    [config         |-> config,
     is_running     |-> FALSE,
     status         |-> "stopped",
     error_message  |-> NoMessage,
     pid            |-> NoPid,
     resource_usage |-> EmptyUsage]

\* A config dict as callers pass it: opaque content, no "ports" entry yet.
NewConfig(base) == [base |-> base, api |-> NoPort]

\* BotInstance.start: the try body (process_info is a dict, so nothing raises)
start(inst, process_info) ==
    [inst EXCEPT !.is_running = TRUE,
                 !.status = "running",
                 !.pid = process_info.pid,
                 !.error_message = NoMessage]

\* BotInstance.stop: the try body; error_message is not assigned
stop(inst) ==
    [inst EXCEPT !.is_running = FALSE,
                 !.status = "stopped",
                 !.pid = NoPid]

\* BotInstance.pause: guarded by is_running, not by status
pause_ok(inst) == inst.is_running

pause(inst) ==
    IF ~inst.is_running THEN inst ELSE [inst EXCEPT !.status = "paused"]

\* BotInstance.resume: guarded by status
resume_ok(inst) == inst.status = "paused"

resume(inst) ==
    IF inst.status # "paused" THEN inst ELSE [inst EXCEPT !.status = "running"]

\* BotInstance.set_error: is_running and pid are not assigned
set_error(inst, error_message) ==
    [inst EXCEPT !.status = "error", !.error_message = error_message]

\* BotInstance.update_resource_usage: update_time holds a datetime object
update_resource_usage(inst, cpu_percent, memory_mb) ==
    [inst EXCEPT !.resource_usage =
        [cpu_percent |-> cpu_percent, memory_mb |-> memory_mb, update_time |-> TRUE]]

\* BotInstance.to_dict: the JSON-bound view of an instance
to_dict(inst) ==
    [config         |-> inst.config,
     is_running     |-> inst.is_running,
     status         |-> inst.status,
     pid            |-> inst.pid,
     error_message  |-> inst.error_message,
     resource_usage |-> inst.resource_usage]

(***************************************************************************)
(* BotGroup                                                                *)
(***************************************************************************)
\* BotGroup.__init__(group_name, group_config)
BotGroup(group_config) == [group_config |-> group_config, instances |-> EmptyMap]

\* BotGroup.add_instance: rejects a duplicate id
add_instance_ok(group, instance_id) == instance_id \notin DOMAIN group.instances

add_instance(group, instance_id, inst) ==
    IF instance_id \in DOMAIN group.instances THEN group
    ELSE [group EXCEPT !.instances = Put(@, instance_id, inst)]

\* BotGroup.remove_instance: pops the instance (and stops the popped object)
remove_instance_ok(group, instance_id) == instance_id \in DOMAIN group.instances

\* Mutant: remove_instance reports success but the instance is not popped.
remove_instance_NotPopped(group, instance_id) == group

remove_instance(group, instance_id) ==
    IF instance_id \notin DOMAIN group.instances THEN group
    ELSE [group EXCEPT !.instances = Drop(@, instance_id)]

\* Mutant: only instances whose status is "running" count as running.
get_running_instances_ByStatus(group) ==
    {i \in DOMAIN group.instances : group.instances[i].status = "running"}

\* BotGroup.get_running_instances: the ids whose is_running flag is set
get_running_instances(group) ==
    {i \in DOMAIN group.instances : group.instances[i].is_running}

\* BotGroup.to_dict
group_to_dict(group) ==
    [group_config |-> group.group_config,
     instances    |-> [i \in DOMAIN group.instances |-> to_dict(group.instances[i])]]

(***************************************************************************)
(* MultiBotManager: persistence                                            *)
(***************************************************************************)
NoFile == [state |-> "absent", groups |-> EmptyMap]
CorruptFile == [state |-> "corrupt", groups |-> EmptyMap]

\* json.dump raises TypeError on a datetime value (resource_usage.update_time)
JsonSerializable(gs) ==
    \A g \in DOMAIN gs : \A i \in DOMAIN gs[g].instances :
        ~gs[g].instances[i].resource_usage.update_time

\* MultiBotManager.save_config: open(file, 'w') truncates first; when json.dump
\* raises midway the exception is swallowed and the truncated file stays.
save_config(gs) ==
    IF JsonSerializable(gs)
    THEN [state |-> "json", groups |-> [g \in DOMAIN gs |-> group_to_dict(gs[g])]]
    ELSE CorruptFile

\* The loop shared by _load_config and import_config: one fresh BotGroup per
\* entry, one fresh BotInstance per instance entry, built from "config" only.
RestoreGroup(group_data) ==
    [group_config |-> group_data.group_config,
     instances    |-> [i \in DOMAIN group_data.instances |->
                          BotInstance(group_data.instances[i].config)]]

\* MultiBotManager._load_config: a missing or unreadable file leaves groups empty
load_config(f) ==
    IF f.state = "json" THEN [g \in DOMAIN f.groups |-> RestoreGroup(f.groups[g])]
    ELSE EmptyMap

(***************************************************************************)
(* Initial state: a freshly constructed manager with no state file, and a  *)
(* fresh PortAllocator.                                                    *)
(***************************************************************************)
\* A call record: the operation, its group/key and instance id arguments, the
\* success flag and port it returned, its preferred-port argument and the
\* return statement taken (the "source" the allocator logs).
CallVia(op, group, id, ok, port, arg, via) ==
    [op |-> op, group |-> group, id |-> id, ok |-> ok, port |-> port,
     arg |-> arg, via |-> via]

Call(op, group, id, ok, port) == CallVia(op, group, id, ok, port, NoPort, NoKey)

\* No BotInstance object (a popped instance that does not exist)
NoInstance == [absent |-> TRUE]

\* MultiBotManager.__init__: the three known events, no handler yet
NoCallbacks == [e \in {"on_start", "on_stop", "on_error"} |-> << >>]

\* What is constructed besides the registry and the allocator: no export
\* file, no handlers, nothing detected or taken over, no allocate_port call
\* in progress, an empty .env file.
InitAux ==
    /\ exported = NoFile
    /\ instance_callbacks = NoCallbacks
    /\ effects = << >>
    /\ removed = NoInstance
    /\ detected_processes = EmptyMap
    /\ takeover_records = EmptyMap
    /\ pending = EmptyMap
    /\ env_file = << >>

Init ==
    /\ groups = EmptyMap
    /\ file = NoFile
    /\ allocated_ports = {}
    /\ port_mappings = EmptyMap
    /\ last = Call("init", NoKey, NoKey, TRUE, NoPort)
    /\ InitAux

(***************************************************************************)
(* MultiBotManager operations                                              *)
(***************************************************************************)
\* MultiBotManager.create_group
create_group(group_name, group_config) ==
    /\ IF group_name \in DOMAIN groups
       THEN UNCHANGED <<groups, file>>
       ELSE /\ groups' = Put(groups, group_name, BotGroup(group_config))
            /\ file' = save_config(groups')
    /\ last' = Call("create_group", group_name, NoKey, TRUE, NoPort)
    /\ UNCHANGED <<allocated_ports, port_mappings>>
    /\ UNCHANGED aux

\* MultiBotManager.delete_group
delete_group(group_name) ==
    /\ IF group_name \notin DOMAIN groups
       THEN /\ UNCHANGED <<groups, file>>
            /\ last' = Call("delete_group", group_name, NoKey, FALSE, NoPort)
       ELSE IF get_running_instances(groups[group_name]) # {}
       THEN /\ UNCHANGED <<groups, file>>
            /\ last' = Call("delete_group", group_name, NoKey, FALSE, NoPort)
       ELSE /\ groups' = Drop(groups, group_name)
            /\ file' = save_config(groups')
            /\ last' = Call("delete_group", group_name, NoKey, TRUE, NoPort)
    /\ UNCHANGED <<allocated_ports, port_mappings>>
    /\ UNCHANGED aux

\* MultiBotManager.create_instance
create_instance(group_name, instance_id, config) ==
    /\ IF group_name \notin DOMAIN groups
       THEN /\ UNCHANGED <<groups, file>>
            /\ last' = Call("create_instance", group_name, instance_id, FALSE, NoPort)
       ELSE IF add_instance_ok(groups[group_name], instance_id)
       THEN /\ groups' = [groups EXCEPT ![group_name] =
                              add_instance(@, instance_id, BotInstance(config))]
            /\ file' = save_config(groups')
            /\ last' = Call("create_instance", group_name, instance_id, TRUE, NoPort)
       ELSE /\ UNCHANGED <<groups, file>>
            /\ last' = Call("create_instance", group_name, instance_id, FALSE, NoPort)
    /\ UNCHANGED <<allocated_ports, port_mappings>>
    /\ UNCHANGED aux

\* MultiBotManager.delete_instance
delete_instance(group_name, instance_id) ==
    /\ IF group_name \notin DOMAIN groups
       THEN /\ UNCHANGED <<groups, file>>
            /\ last' = Call("delete_instance", group_name, instance_id, FALSE, NoPort)
       ELSE IF remove_instance_ok(groups[group_name], instance_id)
       THEN /\ groups' = [groups EXCEPT ![group_name] = remove_instance(@, instance_id)]
            /\ file' = save_config(groups')
            /\ last' = Call("delete_instance", group_name, instance_id, TRUE, NoPort)
       ELSE /\ UNCHANGED <<groups, file>>
            /\ last' = Call("delete_instance", group_name, instance_id, FALSE, NoPort)
    /\ UNCHANGED <<allocated_ports, port_mappings>>
    /\ UNCHANGED aux

\* MultiBotManager.export_config: the same document as save_config, written to
\* a path of the caller's choice; False (no file) when json.dump raises.
export_config(gs) == save_config(gs)

\* Files handed to import_config: an unreadable one, and exports of registries
\* holding a stopped and a running instance.
SampleRegistries ==
    {Put(EmptyMap, "a",
         add_instance(BotGroup(GroupConfig0), "c", BotInstance(NewConfig("cfg2")))),
     Put(Put(EmptyMap, "a_b",
             add_instance(BotGroup(GroupConfig0), "c",
                          start(BotInstance(NewConfig("cfg1")), [pid |-> 1]))),
         "a", BotGroup(GroupConfig0))}

ImportFiles == {CorruptFile} \cup {export_config(r) : r \in SampleRegistries}

\* Mutant: a group of the file replaces the group of the same name.
ImportGroups_Overwrite(gs, data) ==
    [g \in (DOMAIN gs) \cup (DOMAIN data.groups) |->
        IF g \in DOMAIN data.groups THEN RestoreGroup(data.groups[g]) ELSE gs[g]]

\* import_config's loop: groups already present are skipped, the others restored
ImportGroups(gs, data) ==
    [g \in (DOMAIN gs) \cup (DOMAIN data.groups) |->
        IF g \in DOMAIN gs THEN gs[g] ELSE RestoreGroup(data.groups[g])]

\* MultiBotManager.import_config
import_config(data) ==
    /\ IF data.state # "json"
       THEN /\ UNCHANGED <<groups, file>>
            /\ last' = Call("import_config", NoKey, NoKey, FALSE, NoPort)
       ELSE /\ groups' = ImportGroups(groups, data)
            /\ file' = save_config(groups')
            /\ last' = Call("import_config", NoKey, NoKey, TRUE, NoPort)
    /\ UNCHANGED <<allocated_ports, port_mappings>>
    /\ UNCHANGED aux

(***************************************************************************)
(* BotInstance operations on an instance held by the registry (callers get *)
(* the object from get_instance and call its methods; nothing is saved).   *)
(***************************************************************************)
HasInstance(g, i) == g \in DOMAIN groups /\ i \in DOMAIN groups[g].instances

get_instance(g, i) == groups[g].instances[i]

SetInstance(g, i, inst) ==
    /\ groups' = [groups EXCEPT ![g].instances[i] = inst]
    /\ UNCHANGED <<file, allocated_ports, port_mappings>>
    /\ UNCHANGED aux

Start(g, i, process_info) ==
    /\ HasInstance(g, i)
    /\ SetInstance(g, i, start(get_instance(g, i), process_info))
    /\ last' = Call("start", NoKey, NoKey, TRUE, NoPort)

Stop(g, i) ==
    /\ HasInstance(g, i)
    /\ SetInstance(g, i, stop(get_instance(g, i)))
    /\ last' = Call("stop", NoKey, NoKey, TRUE, NoPort)

Pause(g, i) ==
    /\ HasInstance(g, i)
    /\ SetInstance(g, i, pause(get_instance(g, i)))
    /\ last' = Call("pause", NoKey, NoKey, pause_ok(get_instance(g, i)), NoPort)

Resume(g, i) ==
    /\ HasInstance(g, i)
    /\ SetInstance(g, i, resume(get_instance(g, i)))
    /\ last' = Call("resume", NoKey, NoKey, resume_ok(get_instance(g, i)), NoPort)

SetError(g, i, msg) ==
    /\ HasInstance(g, i)
    /\ SetInstance(g, i, set_error(get_instance(g, i), msg))
    /\ last' = Call("set_error", NoKey, NoKey, TRUE, NoPort)

UpdateResourceUsage(g, i, mem) ==
    /\ HasInstance(g, i)
    /\ SetInstance(g, i, update_resource_usage(get_instance(g, i), 0, mem))
    /\ last' = Call("update_resource_usage", NoKey, NoKey, TRUE, NoPort)

(***************************************************************************)
(* Spec: the manager with the lifecycle of the instances it holds          *)
(***************************************************************************)
\* The manager is exercised with both groups and one instance id per group;
\* the lifecycle inputs are one pid, one message and one memory reading.
CreateGroup == \E g \in GroupNames, gc \in GroupConfigs : create_group(g, gc)

DeleteGroup == \E g \in GroupNames : delete_group(g)

CreateInstance == \E g \in GroupNames : create_instance(g, "c", NewConfig("cfg1"))

DeleteInstance == \E g \in GroupNames : delete_instance(g, "c")

ImportConfig == \E data \in ImportFiles : import_config(data)

StartInstance == \E g \in GroupNames : Start(g, "c", [pid |-> 1])

StopInstance == \E g \in GroupNames : Stop(g, "c")

PauseInstance == \E g \in GroupNames : Pause(g, "c")

ResumeInstance == \E g \in GroupNames : Resume(g, "c")

SetErrorInstance == \E g \in GroupNames : SetError(g, "c", "boom")

UpdateUsageInstance == \E g \in GroupNames : UpdateResourceUsage(g, "c", 1)

Next ==
    \/ CreateGroup
    \/ DeleteGroup
    \/ CreateInstance
    \/ DeleteInstance
    \/ ImportConfig
    \/ StartInstance
    \/ StopInstance
    \/ PauseInstance
    \/ ResumeInstance
    \/ SetErrorInstance
    \/ UpdateUsageInstance

Spec == Init /\ [][Next]_vars

(***************************************************************************)
(* PortAllocator                                                           *)
(***************************************************************************)
RESERVED_PORTS ==
    {22, 23, 25, 53, 67, 68, 80, 123, 143, 161, 162, 389, 443, 465, 587,
     636, 993, 995, 3306, 3389, 5432, 5984, 6379, 27017, 27018, 27019, 27020,
     3000, 4200, 5000, 5005, 8080, 8443, 9000, 9090, 9200, 9300}

\* PortAllocator.__init__(start_port, end_port): the allocator is built over a
\* short range that contains the reserved port 8080.
StartPort == 8079
EndPort == StartPort + RangeSize

\* Ports a caller may name or another process may hold: the range and
\* end_port itself, the first port outside it.
CandidatePorts == StartPort..EndPort
PreferredPorts == {NoPort} \cup CandidatePorts

\* Mutant: the allocated_ports test is missing.
is_port_available_NoAllocatedTest(port, allocated, bound) ==
    /\ port \notin RESERVED_PORTS
    /\ port \notin bound

\* PortAllocator.is_port_available; bound is the set of ports on which the
\* loopback connect succeeds (or the probe raises) at the time of the call.
is_port_available(port, allocated, bound) ==
    /\ port \notin allocated
    /\ port \notin RESERVED_PORTS
    /\ port \notin bound

SetMin(S) == CHOOSE x \in S : \A y \in S : x <= y

\* for port in range(start_port, end_port): the first available one
FirstAvailable(allocated, bound) ==
    LET free == {q \in StartPort..(EndPort - 1) : is_port_available(q, allocated, bound)}
    IN IF free = {} THEN NoPort ELSE SetMin(free)

\* Mutant: the two maps are written only when the port is still free.
Assigned_IfStillFree(allocated, mappings, instance_id, port, via) ==
    IF port \in allocated
    THEN [port |-> NoPort, via |-> "none",
          allocated_ports |-> allocated, port_mappings |-> mappings]
    ELSE [port |-> port, via |-> via,
          allocated_ports |-> allocated \cup {port},
          port_mappings |-> Put(mappings, instance_id, port)]

Assigned(allocated, mappings, instance_id, port, via) ==
    [port |-> port, via |-> via,
     allocated_ports |-> allocated \cup {port},
     port_mappings |-> Put(mappings, instance_id, port)]

\* Mutant: the early return for an already mapped key is missing.
allocate_port_NoEarlyReturn(allocated, mappings, instance_id, preferred_port, bound) ==
    IF preferred_port # NoPort /\ is_port_available(preferred_port, allocated, bound)
    THEN Assigned(allocated, mappings, instance_id, preferred_port, "preferred")
    ELSE IF FirstAvailable(allocated, bound) # NoPort
    THEN Assigned(allocated, mappings, instance_id,
                  FirstAvailable(allocated, bound), "automatic")
    ELSE [port |-> NoPort, via |-> "none",
          allocated_ports |-> allocated, port_mappings |-> mappings]

\* Mutant: a preferred port is taken without the availability check.
allocate_port_PreferredUnchecked(allocated, mappings, instance_id, preferred_port, bound) ==
    IF instance_id \in DOMAIN mappings
    THEN [port |-> mappings[instance_id], via |-> "existing",
          allocated_ports |-> allocated, port_mappings |-> mappings]
    ELSE IF preferred_port # NoPort
    THEN Assigned(allocated, mappings, instance_id, preferred_port, "preferred")
    ELSE IF FirstAvailable(allocated, bound) # NoPort
    THEN Assigned(allocated, mappings, instance_id,
                  FirstAvailable(allocated, bound), "automatic")
    ELSE [port |-> NoPort, via |-> "none",
          allocated_ports |-> allocated, port_mappings |-> mappings]

\* PortAllocator.allocate_port: the port returned, the return taken and the
\* two maps afterwards
allocate_port(allocated, mappings, instance_id, preferred_port, bound) ==
    IF instance_id \in DOMAIN mappings
    THEN [port |-> mappings[instance_id], via |-> "existing",
          allocated_ports |-> allocated, port_mappings |-> mappings]
    ELSE IF preferred_port # NoPort /\ is_port_available(preferred_port, allocated, bound)
    THEN Assigned(allocated, mappings, instance_id, preferred_port, "preferred")
    ELSE IF FirstAvailable(allocated, bound) # NoPort
    THEN Assigned(allocated, mappings, instance_id,
                  FirstAvailable(allocated, bound), "automatic")
    ELSE [port |-> NoPort, via |-> "none",
          allocated_ports |-> allocated, port_mappings |-> mappings]

\* Mutant: the mapping is popped but the port stays in allocated_ports.
release_port_KeepPort(allocated, mappings, instance_id) ==
    IF instance_id \notin DOMAIN mappings
    THEN [ok |-> FALSE, allocated_ports |-> allocated, port_mappings |-> mappings]
    ELSE [ok |-> TRUE, allocated_ports |-> allocated,
          port_mappings |-> Drop(mappings, instance_id)]

\* Mutant: the port is discarded but the mapping is not popped.
release_port_NoPop(allocated, mappings, instance_id) ==
    IF instance_id \notin DOMAIN mappings
    THEN [ok |-> FALSE, allocated_ports |-> allocated, port_mappings |-> mappings]
    ELSE [ok |-> TRUE,
          allocated_ports |-> allocated \ {mappings[instance_id]},
          port_mappings |-> mappings]

\* PortAllocator.release_port
release_port(allocated, mappings, instance_id) ==
    IF instance_id \notin DOMAIN mappings
    THEN [ok |-> FALSE, allocated_ports |-> allocated, port_mappings |-> mappings]
    ELSE [ok |-> TRUE,
          allocated_ports |-> allocated \ {mappings[instance_id]},
          port_mappings |-> Drop(mappings, instance_id)]

\* PortAllocator.find_conflicting_ports: the ports more than one key maps
\* to, each with its keys
find_conflicting_ports(mappings) ==
    LET port_to_instances(port) == {key \in DOMAIN mappings : mappings[key] = port}
    IN [port \in {q \in Values(mappings) : Cardinality(port_to_instances(q)) > 1} |->
           port_to_instances(port)]

\* PortAllocator.get_port
get_port(mappings, instance_id) ==
    IF instance_id \in DOMAIN mappings THEN mappings[instance_id] ELSE NoPort

(***************************************************************************)
(* SpecAlloc: a PortAllocator used directly, as port_examples.py does      *)
(***************************************************************************)
AllocKeys == {"bot_001", "bot_002", "bot_003"}

AllocatePort(key, preferred_port, bound) ==
    LET r == allocate_port(allocated_ports, port_mappings, key, preferred_port, bound)
    IN /\ allocated_ports' = r.allocated_ports
       /\ port_mappings' = r.port_mappings
       /\ last' = CallVia("allocate_port", key, NoKey, r.port # NoPort, r.port,
                          preferred_port, r.via)
       /\ UNCHANGED <<groups, file>>
       /\ UNCHANGED aux

ReleasePort(key) ==
    LET r == release_port(allocated_ports, port_mappings, key)
    IN /\ allocated_ports' = r.allocated_ports
       /\ port_mappings' = r.port_mappings
       /\ last' = Call("release_port", key, NoKey, r.ok, NoPort)
       /\ UNCHANGED <<groups, file>>
       /\ UNCHANGED aux

Allocate ==
    \E key \in AllocKeys, pref \in PreferredPorts, bound \in SUBSET CandidatePorts :
        AllocatePort(key, pref, bound)

Release == \E key \in AllocKeys : ReleasePort(key)

NextAlloc == Allocate \/ Release

SpecAlloc == Init /\ [][NextAlloc]_vars

(***************************************************************************)
(* BotPortManager                                                          *)
(***************************************************************************)
\* unique_id = f"{group_name}_{instance_id}"
unique_id(group_name, instance_id) == group_name \o "_" \o instance_id

\* instance.config["ports"]["api"] = port
WithApiPort(gs, g, i, port) ==
    IF g \in DOMAIN gs /\ i \in DOMAIN gs[g].instances
    THEN [gs EXCEPT ![g].instances[i].config.api = port]
    ELSE gs

\* BotPortManager.allocate_port_for_instance
allocate_port_for_instance(group_name, instance_id, preferred_port, bound) ==
    LET r == allocate_port(allocated_ports, port_mappings,
                           unique_id(group_name, instance_id), preferred_port, bound)
    IN /\ allocated_ports' = r.allocated_ports
       /\ port_mappings' = r.port_mappings
       /\ IF r.port # NoPort
          THEN /\ groups' = WithApiPort(groups, group_name, instance_id, r.port)
               /\ file' = save_config(groups')
          ELSE UNCHANGED <<groups, file>>
       /\ last' = CallVia("allocate_port_for_instance", group_name, instance_id,
                          r.port # NoPort, r.port, preferred_port, r.via)
       /\ UNCHANGED aux

\* BotPortManager.get_instance_port
get_instance_port(group_name, instance_id) ==
    get_port(port_mappings, unique_id(group_name, instance_id))

\* release_group_ports' loop: release_port for the key of every instance id
RECURSIVE ReleaseAll(_, _, _, _)
ReleaseAll(allocated, mappings, group_name, ids) ==
    IF ids = {} THEN [allocated_ports |-> allocated, port_mappings |-> mappings]
    ELSE LET i == CHOOSE x \in ids : TRUE
             r == release_port(allocated, mappings, unique_id(group_name, i))
         IN ReleaseAll(r.allocated_ports, r.port_mappings, group_name, ids \ {i})

\* BotPortManager.release_group_ports
release_group_ports(group_name) ==
    /\ IF group_name \notin DOMAIN groups
       THEN /\ UNCHANGED <<groups, file, allocated_ports, port_mappings>>
            /\ last' = Call("release_group_ports", group_name, NoKey, FALSE, NoPort)
       ELSE LET r == ReleaseAll(allocated_ports, port_mappings, group_name,
                                DOMAIN groups[group_name].instances)
            IN /\ allocated_ports' = r.allocated_ports
               /\ port_mappings' = r.port_mappings
               /\ file' = save_config(groups)
               /\ UNCHANGED groups
               /\ last' = Call("release_group_ports", group_name, NoKey, TRUE, NoPort)
    /\ UNCHANGED aux

(***************************************************************************)
(* SpecPorts: a manager and the BotPortManager bound to it                 *)
(***************************************************************************)
PortsCreateGroup == \E g \in GroupNames : create_group(g, GroupConfig0)

PortsCreateInstance ==
    \E g \in GroupNames, i \in InstanceIds : create_instance(g, i, NewConfig("cfg1"))

PortsDeleteInstance == \E g \in GroupNames, i \in InstanceIds : delete_instance(g, i)

PortsDeleteGroup == \E g \in GroupNames : delete_group(g)

AllocateForInstance ==
    \E g \in GroupNames, i \in InstanceIds,
       pref \in {NoPort, StartPort + 2}, bound \in {{}, {StartPort}} :
        allocate_port_for_instance(g, i, pref, bound)

ReleaseGroupPorts == \E g \in GroupNames : release_group_ports(g)

NextPorts ==
    \/ PortsCreateGroup
    \/ PortsCreateInstance
    \/ PortsDeleteInstance
    \/ PortsDeleteGroup
    \/ AllocateForInstance
    \/ ReleaseGroupPorts

SpecPorts == Init /\ [][NextPorts]_vars

(***************************************************************************)
(* SpecInstance: one BotInstance held by the registry, driven through all  *)
(* of its mutators with every input of the bounds.                         *)
(***************************************************************************)
TheGroup == "a"
TheId == "c"

InitInstance ==
    /\ groups = Put(EmptyMap, TheGroup,
                    add_instance(BotGroup(GroupConfig0), TheId,
                                 BotInstance(NewConfig("cfg1"))))
    /\ file = save_config(groups)
    /\ allocated_ports = {}
    /\ port_mappings = EmptyMap
    /\ last = Call("create_instance", TheGroup, TheId, TRUE, NoPort)
    /\ InitAux

InstStart == \E p \in ProcessInfos : Start(TheGroup, TheId, p)

InstStop == Stop(TheGroup, TheId)

InstPause == Pause(TheGroup, TheId)

InstResume == Resume(TheGroup, TheId)

InstSetError == \E m \in Messages : SetError(TheGroup, TheId, m)

InstUpdateUsage == \E mem \in 1..MaxMem : UpdateResourceUsage(TheGroup, TheId, mem)

NextInstance ==
    \/ InstStart
    \/ InstStop
    \/ InstPause
    \/ InstResume
    \/ InstSetError
    \/ InstUpdateUsage

SpecInstance == InitInstance /\ [][NextInstance]_vars

TheInstance == groups[TheGroup].instances[TheId]

(***************************************************************************)
(* Claims                                                                  *)
(***************************************************************************)
MutatingOps ==
    {"create_group", "delete_group", "create_instance", "delete_instance",
     "import_config"}

\* What a reload recovers and the claims compare: group names, instance ids
\* and instance configs.
Snapshot(gs) ==
    [g \in DOMAIN gs |-> [i \in DOMAIN gs[g].instances |-> gs[g].instances[i].config]]

\* C1: when a mutating manager operation has just returned success, the state
\* file is loadable and reloading it gives the group names, instance ids and
\* instance configs of the in-memory registry.
C1_PersistedAfterMutation ==
    (last.op \in MutatingOps /\ last.ok) =>
        /\ file.state = "json"
        /\ Snapshot(load_config(file)) = Snapshot(groups)

RunningOrPaused(inst) == inst.status \in {"running", "paused"}

\* C2: a delete_group call on a group holding a running or paused instance
\* returns False and changes neither the registry nor the file, and no
\* delete_group call ever removes or alters a running or paused instance.
C2_DeleteGroupKeepsRunning ==
    [][last'.op = "delete_group" =>
         \A g \in DOMAIN groups : \A i \in DOMAIN groups[g].instances :
             RunningOrPaused(groups[g].instances[i]) =>
                 /\ g \in DOMAIN groups'
                 /\ groups'[g] = groups[g]
                 /\ (last'.group = g => ~last'.ok /\ groups' = groups /\ file' = file)
      ]_vars

\* C2 witness: delete_group has just been refused for a group that holds a
\* paused instance.
C2_Witness ==
    /\ last.op = "delete_group"
    /\ ~last.ok
    /\ last.group \in DOMAIN groups
    /\ \E i \in DOMAIN groups[last.group].instances :
           groups[last.group].instances[i].status = "paused"

\* C3: is_running is true exactly when status is running or paused.
C3_IsRunningInSync == TheInstance.is_running <=> RunningOrPaused(TheInstance)

\* C4: pause() returns success and moves to paused only from running; from
\* any other status it returns failure and changes nothing.
C4_PauseOnlyFromRunning ==
    [][last'.op = "pause" =>
         IF TheInstance.status = "running"
         THEN last'.ok /\ TheInstance'.status = "paused"
         ELSE ~last'.ok /\ TheInstance' = TheInstance
      ]_vars

\* C5: error_message is set only while status is error.
C5_ErrorMessageOnlyInError ==
    TheInstance.status # "error" => TheInstance.error_message = NoMessage

\* C6: two distinct keys that both hold an allocation hold distinct ports
\* (also when the same preferred port was asked for both).
C6_DistinctPorts ==
    \A k1, k2 \in DOMAIN port_mappings :
        k1 # k2 => port_mappings[k1] # port_mappings[k2]

\* C6 witness: two keys hold ports although the second asked for the port
\* the first one holds.
C6_Witness ==
    /\ Cardinality(DOMAIN port_mappings) >= 2
    /\ last.op = "allocate_port"
    /\ last.via = "automatic"
    /\ \E k \in DOMAIN port_mappings : k # last.group /\ port_mappings[k] = last.arg

\* C7: allocated_ports is exactly the set of ports port_mappings maps to.
C7_AllocatedIffMapped == allocated_ports = Values(port_mappings)

\* C7 witness: a release has happened and another key still holds a port.
C7_Witness ==
    /\ last.op = "release_port"
    /\ last.ok
    /\ port_mappings # EmptyMap

\* C8: an allocate call for a key that already holds a port returns that
\* port and leaves allocated_ports and port_mappings as they were.
C8_IdempotentAllocate ==
    [][(last'.op = "allocate_port" /\ last'.group \in DOMAIN port_mappings) =>
           /\ last'.port = port_mappings[last'.group]
           /\ allocated_ports' = allocated_ports
           /\ port_mappings' = port_mappings
      ]_vars

\* C8 witness: a key that holds a port was allocated again with a different,
\* free and unreserved preferred port, and got its own port back.
C8_Witness ==
    /\ last.op = "allocate_port"
    /\ last.via = "existing"
    /\ last.arg \notin {NoPort, last.port}
    /\ last.arg \notin allocated_ports \cup RESERVED_PORTS
    /\ port_mappings[last.group] = last.port

\* C10: every port returned by allocate_port lies in [start_port, end_port)
\* and is not reserved.
C10_ReturnedPortInRange ==
    (last.op = "allocate_port" /\ last.port # NoPort) =>
        /\ last.port \in StartPort..(EndPort - 1)
        /\ last.port \notin RESERVED_PORTS

ExistingPairs ==
    {pr \in GroupNames \X InstanceIds :
        pr[1] \in DOMAIN groups /\ pr[2] \in DOMAIN groups[pr[1]].instances}

\* C9: two distinct (group, instance_id) pairs of the registry never hold
\* the same allocator port: each pair has a slot of its own.
C9_IndependentSlots ==
    \A p1, p2 \in ExistingPairs :
        (p1 # p2 /\ get_instance_port(p1[1], p1[2]) # NoPort) =>
            get_instance_port(p1[1], p1[2]) # get_instance_port(p2[1], p2[2])

\* C12: release_port of a key that holds port p returns True, removes the
\* key's mapping and takes p out of allocated_ports, so that an allocate by
\* any other key without a port that asks for p (p not bound by another
\* program) is assigned p; release_port of a key without a mapping returns
\* False and leaves allocated_ports and port_mappings unchanged.
C12_ReleaseFreesPort ==
    [][last'.op = "release_port" =>
         LET key == last'.group
         IN IF key \in DOMAIN port_mappings
            THEN /\ last'.ok
                 /\ key \notin DOMAIN port_mappings'
                 /\ port_mappings[key] \notin allocated_ports'
                 /\ \A other \in AllocKeys \ DOMAIN port_mappings :
                        allocate_port(allocated_ports', port_mappings', other,
                                      port_mappings[key], {}).port
                            = port_mappings[key]
            ELSE /\ ~last'.ok
                 /\ allocated_ports' = allocated_ports
                 /\ port_mappings' = port_mappings
      ]_vars

\* C12 witness: a key has been released while another key holds a port and
\* a third key holds none, so the freed port can go to a different key.
C12_Witness ==
    /\ last.op = "release_port"
    /\ last.ok
    /\ last.group \notin DOMAIN port_mappings
    /\ Cardinality(DOMAIN port_mappings) = 1

(***************************************************************************)
(* SpecPortsUsage: one instance that runs, is monitored and is given a     *)
(* port by the BotPortManager                                              *)
(***************************************************************************)
NextPortsUsage ==
    \/ InstStart
    \/ InstStop
    \/ InstUpdateUsage
    \/ \E pref \in {NoPort, StartPort + 1}, bound \in {{}, {StartPort}, CandidatePorts} :
           allocate_port_for_instance(TheGroup, TheId, pref, bound)
    \/ release_group_ports(TheGroup)

SpecPortsUsage == InitInstance /\ [][NextPortsUsage]_vars

\* C11: allocate_port_for_instance for an existing instance either returns
\* a port p, and then the instance's config["ports"]["api"] is p and the
\* state file holds the registry, or returns None, and then the registry,
\* allocated_ports, port_mappings and the state file are unchanged.
C11_AllocateForInstance ==
    [][(last'.op = "allocate_port_for_instance"
          /\ HasInstance(last'.group, last'.id)) =>
         IF last'.port # NoPort
         THEN /\ groups'[last'.group].instances[last'.id].config.api = last'.port
              /\ file'.state = "json"
              /\ Snapshot(load_config(file')) = Snapshot(groups')
         ELSE /\ groups' = groups
              /\ allocated_ports' = allocated_ports
              /\ port_mappings' = port_mappings
              /\ file' = file
      ]_vars

(***************************************************************************)
(* SpecRestore: registries written to the state file and to an export      *)
(* file, and managers built from them                                      *)
(***************************************************************************)
\* export_config(filepath) called on the manager
ExportConfig ==
    /\ exported' = export_config(groups)
    /\ last' = Call("export_config", NoKey, NoKey, exported'.state = "json", NoPort)
    /\ UNCHANGED <<pending, env_file, groups, file, allocated_ports, port_mappings, instance_callbacks,
                   effects, removed, detected_processes, takeover_records>>

\* The process ends and MultiBotManager() is constructed again over the
\* state file: __init__ calls _load_config; nothing else survives.
Restart ==
    /\ groups' = load_config(file)
    /\ last' = Call("__init__", NoKey, NoKey, TRUE, NoPort)
    /\ allocated_ports' = {}
    /\ port_mappings' = EmptyMap
    /\ UNCHANGED <<file, aux>>

\* MultiBotManager() constructed where no state file exists (its registry is
\* empty), followed by import_config of the export file.
FreshImport ==
    /\ IF exported.state # "json"
       THEN /\ groups' = EmptyMap
            /\ file' = NoFile
       ELSE /\ groups' = ImportGroups(EmptyMap, exported)
            /\ file' = save_config(groups')
    /\ last' = Call("fresh_import", NoKey, NoKey, exported.state = "json", NoPort)
    /\ allocated_ports' = {}
    /\ port_mappings' = EmptyMap
    /\ UNCHANGED aux

NextRestore ==
    \/ CreateGroup
    \/ CreateInstance
    \/ StartInstance
    \/ UpdateUsageInstance
    \/ ExportConfig
    \/ import_config(exported)
    \/ Restart
    \/ FreshImport

SpecRestore == Init /\ [][NextRestore]_vars

\* Every instance of the registry is as BotInstance.__init__ leaves it.
AllStopped(gs) ==
    \A g \in DOMAIN gs : \A i \in DOMAIN gs[g].instances :
        /\ gs[g].instances[i].status = "stopped"
        /\ ~gs[g].instances[i].is_running
        /\ gs[g].instances[i].pid = NoPid

\* C14: a manager built from the file a successful export_config has just
\* written (import into a fresh manager), or from the state file a manager
\* operation has just saved (construction), holds the group names, instance
\* ids and instance configs of the registry that was written, and all its
\* instances are stopped, not running and without pid.
C14_RestoreRoundTrip ==
    [][((last.op = "export_config" /\ last.ok /\ last'.op = "fresh_import")
          \/ (last.op \in MutatingOps /\ last.ok /\ last'.op = "__init__")) =>
         /\ Snapshot(groups') = Snapshot(groups)
         /\ AllStopped(groups')
      ]_vars

\* C15: import_config leaves every group whose name is already in the
\* registry exactly as it was (group_config, instances, their status and
\* config), and the groups it adds are exactly the groups of the file whose
\* names were absent; an unreadable file adds nothing.
C15_ImportSkipsExisting ==
    [][last'.op = "import_config" =>
         /\ \A g \in DOMAIN groups : g \in DOMAIN groups' /\ groups'[g] = groups[g]
         /\ (DOMAIN groups') \ (DOMAIN groups) =
                IF exported.state = "json"
                THEN (DOMAIN exported.groups) \ (DOMAIN groups)
                ELSE {}
      ]_vars

\* C15 witness: an import has just succeeded from a file that holds a group
\* whose name was present, with an instance that is running in the registry
\* and whose group differs from the file's, and a group that was absent.
C15_Witness ==
    /\ last.op = "import_config"
    /\ last.ok
    /\ \E g, h \in DOMAIN exported.groups :
           /\ g # h
           /\ DOMAIN groups = {g, h}
           /\ groups[h] = RestoreGroup(exported.groups[h])
           /\ groups[g] # RestoreGroup(exported.groups[g])
           /\ \E i \in DOMAIN groups[g].instances :
                  groups[g].instances[i].status = "running"

(***************************************************************************)
(* SpecCallbacks: register_callback and trigger_callback                   *)
(***************************************************************************)
MaxHandlers == 2

\* Something a call did outside the registry: a trigger_callback call, a
\* handler invocation, a handler exception caught and logged, a spawn, a
\* terminate, a sleep.
Effect(kind, what, who) == [kind |-> kind, what |-> what, who |-> who, secs |-> 0]

\* Mutant: the try/except encloses the whole loop, so the first exception
\* ends it.
RECURSIVE RunCallbacks_AbortOnRaise(_, _, _)
RunCallbacks_AbortOnRaise(callbacks, event, raising) ==
    IF callbacks = << >> THEN << >>
    ELSE IF Head(callbacks) \in raising
    THEN <<Effect("callback", event, Head(callbacks)),
           Effect("caught", event, Head(callbacks))>>
    ELSE <<Effect("callback", event, Head(callbacks))>>
             \o RunCallbacks_AbortOnRaise(Tail(callbacks), event, raising)

\* trigger_callback's loop: each callback is called inside its own
\* try/except Exception; raising is the set of callables that raise.
RECURSIVE RunCallbacks(_, _, _)
RunCallbacks(callbacks, event, raising) ==
    IF callbacks = << >> THEN << >>
    ELSE (IF Head(callbacks) \in raising
          THEN <<Effect("callback", event, Head(callbacks)),
                 Effect("caught", event, Head(callbacks))>>
          ELSE <<Effect("callback", event, Head(callbacks))>>)
             \o RunCallbacks(Tail(callbacks), event, raising)

\* What a trigger_callback(event, ...) call does
TriggerEffects(event, raising) ==
    <<Effect("trigger", event, NoKey)>>
        \o (IF event \notin DOMAIN instance_callbacks THEN << >>
            ELSE RunCallbacks(instance_callbacks[event], event, raising))

\* MultiBotManager.register_callback
register_callback(event, callback) ==
    /\ instance_callbacks' =
           IF event \in DOMAIN instance_callbacks
           THEN [instance_callbacks EXCEPT ![event] = Append(@, callback)]
           ELSE instance_callbacks
    /\ effects' = << >>
    /\ last' = Call("register_callback", event, callback, TRUE, NoPort)
    /\ UNCHANGED <<pending, env_file, groups, file, allocated_ports, port_mappings, exported, removed,
                   detected_processes, takeover_records>>

\* MultiBotManager.trigger_callback
trigger_callback(event, raising) ==
    /\ effects' = TriggerEffects(event, raising)
    /\ last' = Call("trigger_callback", event, NoKey, TRUE, NoPort)
    /\ UNCHANGED <<pending, env_file, groups, file, allocated_ports, port_mappings, exported, removed,
                   instance_callbacks, detected_processes, takeover_records>>

\* Two callables are registered and triggered, for two events that __init__
\* knows and one that it does not.
NextCallbacks ==
    \/ \E event \in {"on_start", "on_error", "on_exit"}, callback \in {"h1", "h2"} :
           /\ event \in DOMAIN instance_callbacks =>
                  Len(instance_callbacks[event]) < MaxHandlers
           /\ register_callback(event, callback)
    \/ \E event \in {"on_start", "on_error", "on_exit"}, raising \in SUBSET {"h1", "h2"} :
           trigger_callback(event, raising)

SpecCallbacks == Init /\ [][NextCallbacks]_vars

\* The effects of the given kinds among those of a call, in order
RECURSIVE OfKinds(_, _)
OfKinds(effs, kinds) ==
    IF effs = << >> THEN << >>
    ELSE (IF Head(effs).kind \in kinds THEN <<Head(effs)>> ELSE << >>)
             \o OfKinds(Tail(effs), kinds)

Sleep(interval) == [kind |-> "sleep", what |-> NoKey, who |-> NoKey, secs |-> interval]

\* launch_instance on registry gs: the registry afterwards, the pair it
\* returns and what it did, in order.
LaunchOne(gs, group_name, instance_id, spawn, raising) ==
    IF ~(group_name \in DOMAIN gs /\ instance_id \in DOMAIN gs[group_name].instances)
    THEN [groups |-> gs, ok |-> FALSE, pid |-> NoPid,
          effects |-> <<Effect("launch", instance_id, NoKey)>>]
    ELSE LET inst == gs[group_name].instances[instance_id]
             called == <<Effect("launch", instance_id, NoKey),
                         Effect("spawn", instance_id, NoKey)>>
         IN CASE spawn = "raise" ->
                   [groups |-> gs, ok |-> FALSE, pid |-> NoPid, effects |-> called]
              [] spawn = "none" ->
                   [groups |-> [gs EXCEPT ![group_name].instances[instance_id] =
                                   set_error(inst, "launch failed")],
                    ok |-> FALSE, pid |-> NoPid,
                    effects |-> called \o TriggerEffects("on_error", raising)]
              [] spawn = "ok" ->
                   [groups |-> [gs EXCEPT ![group_name].instances[instance_id] =
                                   start(inst, [pid |-> 1])],
                    ok |-> TRUE, pid |-> 1,
                    effects |-> called \o TriggerEffects("on_start", raising)]

\* MultiBotLauncher.launch_instance
launch_instance(group_name, instance_id, spawn, raising) ==
    LET r == LaunchOne(groups, group_name, instance_id, spawn, raising)
    IN /\ groups' = r.groups
       /\ effects' = r.effects
       /\ last' = CallVia("launch_instance", group_name, instance_id, r.ok, NoPort,
                          r.pid, spawn)
       /\ UNCHANGED <<pending, env_file, file, allocated_ports, port_mappings, exported, removed,
                      instance_callbacks, detected_processes, takeover_records>>

\* MultiBotLauncher.stop_instance
stop_instance(group_name, instance_id, term, raising) ==
    /\ IF ~HasInstance(group_name, instance_id)
       THEN /\ UNCHANGED groups
            /\ effects' = << >>
            /\ last' = CallVia("stop_instance", group_name, instance_id, FALSE,
                               NoPort, NoPid, "missing")
       ELSE IF ~get_instance(group_name, instance_id).is_running
       THEN /\ UNCHANGED groups
            /\ effects' = << >>
            /\ last' = CallVia("stop_instance", group_name, instance_id, FALSE,
                               NoPort, NoPid, "not running")
       ELSE LET inst == get_instance(group_name, instance_id)
                called == IF inst.pid # NoPid
                          THEN <<Effect("terminate", instance_id, NoKey)>> ELSE << >>
                success == inst.pid = NoPid \/ term = "ok"
            IN /\ groups' = IF success
                            THEN [groups EXCEPT ![group_name].instances[instance_id] =
                                     stop(inst)]
                            ELSE groups
               /\ effects' = IF success
                             THEN called \o TriggerEffects("on_stop", raising)
                             ELSE called
               /\ last' = CallVia("stop_instance", group_name, instance_id, success,
                                  NoPort, inst.pid,
                                  IF inst.pid = NoPid THEN "no pid" ELSE term)
    /\ UNCHANGED <<pending, env_file, file, allocated_ports, port_mappings, exported, removed,
                   instance_callbacks, detected_processes, takeover_records>>

\* interval = group.group_config.get("launch_interval", 1)
launch_interval(group) ==
    IF group.group_config.launch_interval = NoInterval
    THEN 1 ELSE group.group_config.launch_interval

\* Mutant: the sleep follows every instance, the last one too.
RECURSIVE LaunchLoop_SleepAfterLast(_, _, _, _, _)
LaunchLoop_SleepAfterLast(gs, group_name, launch_config, outcome, interval) ==
    IF launch_config = << >> THEN [groups |-> gs, effects |-> << >>]
    ELSE LET r == LaunchOne(gs, group_name, Head(launch_config),
                            IF Head(launch_config) \in DOMAIN outcome
                            THEN outcome[Head(launch_config)] ELSE "none", {})
             rest == LaunchLoop_SleepAfterLast(r.groups, group_name,
                                               Tail(launch_config), outcome, interval)
         IN [groups |-> rest.groups,
             effects |-> r.effects
                           \o (IF interval > 0 THEN <<Sleep(interval)>> ELSE << >>)
                           \o rest.effects]

\* launch_group's loop over launch_config.items(): launch_instance, then
\* time.sleep(interval) unless interval <= 0 or the key is the last one;
\* outcome is what the spawn does for the instances of the group.
RECURSIVE LaunchLoop(_, _, _, _, _)
LaunchLoop(gs, group_name, launch_config, outcome, interval) ==
    IF launch_config = << >> THEN [groups |-> gs, effects |-> << >>]
    ELSE LET r == LaunchOne(gs, group_name, Head(launch_config),
                            IF Head(launch_config) \in DOMAIN outcome
                            THEN outcome[Head(launch_config)] ELSE "none", {})
             rest == LaunchLoop(r.groups, group_name, Tail(launch_config), outcome,
                                interval)
         IN [groups |-> rest.groups,
             effects |-> r.effects
                           \o (IF interval > 0 /\ Tail(launch_config) # << >>
                               THEN <<Sleep(interval)>> ELSE << >>)
                           \o rest.effects]

\* MultiBotLauncher.launch_group; launch_config is the sequence of the keys
\* of the dict in iteration order, outcome what the spawn does for each.
launch_group(group_name, launch_config, outcome) ==
    /\ IF group_name \notin DOMAIN groups
       THEN /\ UNCHANGED groups
            /\ effects' = << >>
       ELSE LET r == LaunchLoop(groups, group_name, launch_config, outcome,
                               launch_interval(groups[group_name]))
            IN /\ groups' = r.groups
               /\ effects' = r.effects
    /\ last' = CallVia("launch_group", group_name, NoKey, TRUE, NoPort,
                       launch_config, NoKey)
    /\ UNCHANGED <<pending, env_file, file, allocated_ports, port_mappings, exported, removed,
                   instance_callbacks, detected_processes, takeover_records>>

(***************************************************************************)
(* SpecLauncher: a group of two instances driven through the launcher      *)
(***************************************************************************)
\* The ids a launch configuration may name: the two instances of the group
\* and one that the group does not hold.
LaunchIds == InstanceIds \cup {"d"}

\* The launch configurations: the key sequences without repetition
LaunchConfigs ==
    {cfg \in UNION {[1..n -> LaunchIds] : n \in 0..Cardinality(LaunchIds)} :
        \A x, y \in 1..Len(cfg) : x # y => cfg[x] # cfg[y]}

\* Group "a" with both instances stopped, created with launch_interval
\* absent, 0 or 2; one on_error handler is registered.
InitLauncher ==
    /\ \E interval \in {NoInterval, 0, 2} :
           groups = Put(EmptyMap, TheGroup,
                        [group_config |-> [launch_interval |-> interval],
                         instances |-> [i \in InstanceIds |->
                                           BotInstance(NewConfig("cfg1"))]])
    /\ file = save_config(groups)
    /\ allocated_ports = {}
    /\ port_mappings = EmptyMap
    /\ last = Call("create_instance", TheGroup, TheId, TRUE, NoPort)
    /\ exported = NoFile
    /\ instance_callbacks = [NoCallbacks EXCEPT !["on_error"] = <<"h1">>]
    /\ effects = << >>
    /\ removed = NoInstance
    /\ detected_processes = EmptyMap
    /\ takeover_records = EmptyMap
    /\ pending = EmptyMap
    /\ env_file = << >>

NextLauncher ==
    \/ \E i \in LaunchIds, spawn \in {"ok", "none", "raise"} :
           launch_instance(TheGroup, i, spawn, {})
    \/ \E i \in LaunchIds, term \in {"ok", "fail", "raise"} :
           stop_instance(TheGroup, i, term, {})
    \/ \E launch_config \in LaunchConfigs, outcome \in [InstanceIds -> {"ok", "none", "raise"}] :
           launch_group(TheGroup, launch_config, outcome)

SpecLauncher == InitLauncher /\ [][NextLauncher]_vars

\* C13: when the process manager fails in launch_instance (the spawn
\* returns nothing or raises) or in stop_instance (the terminate returns
\* False or raises), the call returns failure, the instance is in status
\* error with a message and on_error has been triggered.
C13_FailureSurfaced ==
    [][(/\ HasInstance(last'.group, last'.id)
        /\ \/ last'.op = "launch_instance" /\ last'.via \in {"none", "raise"}
           \/ last'.op = "stop_instance" /\ last'.via \in {"fail", "raise"}) =>
         /\ ~last'.ok
         /\ groups'[last'.group].instances[last'.id].status = "error"
         /\ groups'[last'.group].instances[last'.id].error_message # NoMessage
         /\ \E k \in 1..Len(effects') :
                effects'[k].kind = "trigger" /\ effects'[k].what = "on_error"
      ]_vars

\* C17: a launch_group call on a group whose launch interval is positive
\* launches the instances one at a time in the order of the launch
\* configuration, sleeps launch_interval between every two consecutive
\* launch attempts and not after the last one, and spawns an instance only
\* within its own launch attempt.
C17_LaunchSpacing ==
    (last.op = "launch_group" /\ launch_interval(groups[last.group]) > 0) =>
        LET sch == OfKinds(effects, {"launch", "sleep"})
            n == Len(last.arg)
        IN /\ Len(sch) = IF n = 0 THEN 0 ELSE 2 * n - 1
           /\ \A k \in 1..n : sch[2 * k - 1] = Effect("launch", last.arg[k], NoKey)
           /\ \A k \in 1..(n - 1) :
                  sch[2 * k] = Sleep(launch_interval(groups[last.group]))
           /\ \A p \in 1..Len(effects) :
                  effects[p].kind = "spawn" =>
                      p > 1 /\ effects[p - 1] = Effect("launch", effects[p].what, NoKey)

\* C17 witness: a group with launch_interval 2 was launched with three
\* keys, the middle one not held by the group; both others were spawned,
\* the first one failing.
C17_Witness ==
    /\ last.op = "launch_group"
    /\ launch_interval(groups[last.group]) = 2
    /\ last.arg = <<"c", "d", "b_c">>
    /\ Cardinality({p \in 1..Len(effects) : effects[p].kind = "spawn"}) = 2
    /\ Cardinality({p \in 1..Len(effects) : effects[p].kind = "sleep"}) = 2
    /\ groups[last.group].instances["c"].status = "error"
    /\ groups[last.group].instances["b_c"].status = "running"

(***************************************************************************)
(* SpecGroup: the BotGroup operations called on a group of the registry    *)
(***************************************************************************)
\* Mutant: the popped instance is not stopped.
popped_instance_NotStopped(group, instance_id) ==
    IF instance_id \notin DOMAIN group.instances THEN NoInstance
    ELSE group.instances[instance_id]

\* BotGroup.remove_instance: the object popped, stopped if it was running
popped_instance(group, instance_id) ==
    IF instance_id \notin DOMAIN group.instances THEN NoInstance
    ELSE IF group.instances[instance_id].is_running
    THEN stop(group.instances[instance_id])
    ELSE group.instances[instance_id]

\* BotGroup.remove_instance called on the group (nothing is saved); the call
\* record keeps the status the instance had when it was popped.
group_remove_instance(group_name, instance_id) ==
    /\ groups' = [groups EXCEPT ![group_name] = remove_instance(@, instance_id)]
    /\ removed' = popped_instance(groups[group_name], instance_id)
    /\ effects' = << >>
    /\ last' = CallVia("remove_instance", group_name, instance_id,
                       remove_instance_ok(groups[group_name], instance_id), NoPort,
                       NoPort,
                       IF instance_id \in DOMAIN groups[group_name].instances
                       THEN groups[group_name].instances[instance_id].status
                       ELSE NoKey)
    /\ UNCHANGED <<pending, env_file, file, allocated_ports, port_mappings, exported,
                   instance_callbacks, detected_processes, takeover_records>>

\* callback(instance_id, success) once for every id of the result map (the
\* claims do not depend on the order of the calls)
RECURSIVE CallbackCalls(_)
CallbackCalls(ids) ==
    IF ids = {} THEN << >>
    ELSE LET i == CHOOSE x \in ids : TRUE
         IN <<Effect("callback", i, NoKey)>> \o CallbackCalls(ids \ {i})

\* BotGroup.start_all: an entry and a callback call for every instance that
\* is not running; no instance is touched.
start_all(group_name, callback) ==
    LET results == [i \in {j \in DOMAIN groups[group_name].instances :
                              ~groups[group_name].instances[j].is_running} |-> TRUE]
    IN /\ effects' = IF callback THEN CallbackCalls(DOMAIN results) ELSE << >>
       /\ last' = CallVia("start_all", group_name, NoKey, TRUE, NoPort, results,
                          IF callback THEN "callback" ELSE NoKey)
       /\ UNCHANGED <<pending, env_file, groups, file, allocated_ports, port_mappings, exported, removed,
                      instance_callbacks, detected_processes, takeover_records>>

\* BotGroup.stop_all: stop(), an entry and a callback call for every
\* instance that is running.
stop_all(group_name, callback) ==
    LET results == [i \in get_running_instances(groups[group_name]) |-> TRUE]
    IN /\ groups' = [groups EXCEPT ![group_name].instances =
                        [i \in DOMAIN @ |-> IF i \in DOMAIN results THEN stop(@[i])
                                            ELSE @[i]]]
       /\ effects' = IF callback THEN CallbackCalls(DOMAIN results) ELSE << >>
       /\ last' = CallVia("stop_all", group_name, NoKey, TRUE, NoPort, results,
                          IF callback THEN "callback" ELSE NoKey)
       /\ UNCHANGED <<pending, env_file, file, allocated_ports, port_mappings, exported, removed,
                      instance_callbacks, detected_processes, takeover_records>>

NextGroup ==
    \/ \E i \in InstanceIds : Start(TheGroup, i, [pid |-> 1])
    \/ \E i \in InstanceIds : Pause(TheGroup, i)
    \/ \E i \in InstanceIds : SetError(TheGroup, i, "boom")
    \/ \E i \in LaunchIds : group_remove_instance(TheGroup, i)
    \/ \E callback \in BOOLEAN : start_all(TheGroup, callback)
    \/ \E callback \in BOOLEAN : stop_all(TheGroup, callback)

SpecGroup == InitLauncher /\ [][NextGroup]_vars

\* C18: remove_instance of an id the group holds returns True and the id is
\* no longer in the group; if the instance was running, the removed object
\* has status stopped, is_running False and no pid. remove_instance of an id
\* the group does not hold returns False and changes nothing.
C18_RemoveStops ==
    [][last'.op = "remove_instance" =>
         LET group == groups[last'.group]
         IN IF last'.id \in DOMAIN group.instances
            THEN /\ last'.ok
                 /\ last'.id \notin DOMAIN groups'[last'.group].instances
                 /\ last'.via = "running" =>
                        /\ removed'.status = "stopped"
                        /\ ~removed'.is_running
                        /\ removed'.pid = NoPid
            ELSE /\ ~last'.ok
                 /\ groups' = groups
                 /\ file' = file
      ]_vars

\* C18 witness: an instance has been removed that was running with a pid,
\* and the other instance is still in the group.
C18_Witness ==
    /\ last.op = "remove_instance"
    /\ last.ok
    /\ last.via = "running"
    /\ removed.status = "stopped"
    /\ DOMAIN groups[last.group].instances = InstanceIds \ {last.id}

\* C19: after start_all every instance of the group is running, after
\* stop_all none is; the map returned has one entry per instance of the
\* group, and a callback that was passed has been called once per entry.
C19_BulkStartStop ==
    [][(last'.op \in {"start_all", "stop_all"}) =>
         LET instances == groups'[last'.group].instances
         IN /\ \A i \in DOMAIN instances :
                   IF last'.op = "start_all"
                   THEN instances[i].status = "running" /\ instances[i].is_running
                   ELSE instances[i].status # "running" /\ ~instances[i].is_running
            /\ DOMAIN last'.arg = DOMAIN instances
            /\ last'.via = "callback" =>
                   Len(effects') = Cardinality(DOMAIN last'.arg)
      ]_vars

(***************************************************************************)
(* LocalBotDetector and LocalBotTakeover. Texts are sequences of           *)
(* characters, so that the substring search is the one the code makes.     *)
(***************************************************************************)
\* BOT_PROCESS_KEYWORDS, in the order of the dict
BOT_PROCESS_KEYWORDS ==
    <<[bot_type |-> "MaiBot",
       keywords |-> {<<"m", "a", "i", "b", "o", "t">>,
                     <<"m", "a", "i", "_", "b", "o", "t">>,
                     <<"m", "a", "i", "n", ".", "p", "y">>}],
      [bot_type |-> "MoFox_bot",
       keywords |-> {<<"m", "o", "f", "o", "x">>,
                     <<"m", "o", "f", "o", "x", "_", "b", "o", "t">>}],
      [bot_type |-> "NapCat",
       keywords |-> {<<"n", "a", "p", "c", "a", "t">>, <<"q", "q">>}]>>

\* str.lower() over the letters the texts use
lower(text) ==
    LET up == [c \in {"N", "C", "Q", "M"} |->
                  CASE c = "N" -> "n" [] c = "C" -> "c" [] c = "Q" -> "q" [] c = "M" -> "m"]
    IN [k \in 1..Len(text) |-> IF text[k] \in DOMAIN up THEN up[text[k]] ELSE text[k]]

\* keyword in text
Contains(text, keyword) ==
    \E k \in 0..(Len(text) - Len(keyword)) :
        SubSeq(text, k + 1, k + Len(keyword)) = keyword

\* ' '.join(cmdline)
RECURSIVE Join(_)
Join(cmdline) ==
    IF cmdline = << >> THEN << >>
    ELSE IF Len(cmdline) = 1 THEN cmdline[1]
    ELSE cmdline[1] \o <<" ">> \o Join(Tail(cmdline))

\* Mutant: the last entry of the table that matches wins.
identify_bot_type_LastMatch(pinfo) ==
    LET searchable_text ==
            lower(pinfo.name \o <<" ">> \o pinfo.exe \o <<" ">> \o pinfo.cwd \o <<" ">>
                      \o Join(pinfo.cmdline))
        matches == {n \in 1..Len(BOT_PROCESS_KEYWORDS) :
                       \E keyword \in BOT_PROCESS_KEYWORDS[n].keywords :
                           Contains(searchable_text, keyword)}
    IN IF matches = {} THEN NoKey
       ELSE BOT_PROCESS_KEYWORDS[CHOOSE n \in matches : \A o \in matches : o <= n].bot_type

\* LocalBotDetector._identify_bot_type: the first entry of the table, in its
\* order, one of whose keywords is in the searchable text; None otherwise.
identify_bot_type(pinfo) ==
    LET searchable_text ==
            lower(pinfo.name \o <<" ">> \o pinfo.exe \o <<" ">> \o pinfo.cwd \o <<" ">>
                      \o Join(pinfo.cmdline))
        matches == {n \in 1..Len(BOT_PROCESS_KEYWORDS) :
                       \E keyword \in BOT_PROCESS_KEYWORDS[n].keywords :
                           Contains(searchable_text, keyword)}
    IN IF matches = {} THEN NoKey
       ELSE BOT_PROCESS_KEYWORDS[SetMin(matches)].bot_type

\* The processes psutil may list: "node NapCat", "py main.py napcat" and
\* "sh".
HostProcesses ==
    {[pid |-> 1, name |-> <<"n", "o", "d", "e">>, exe |-> <<"/", "n">>, cwd |-> <<"/">>,
      cmdline |-> <<<<"n", "o", "d", "e">>, <<"N", "a", "p", "C", "a", "t">>>>],
     [pid |-> 2, name |-> <<"p", "y">>, exe |-> <<"/", "p">>, cwd |-> <<"/">>,
      cmdline |-> <<<<"p", "y">>, <<"m", "a", "i", "n", ".", "p", "y">>,
                    <<"n", "a", "p", "c", "a", "t">>>>],
     [pid |-> 3, name |-> <<"s", "h">>, exe |-> <<"/", "s">>, cwd |-> <<"/">>,
      cmdline |-> <<<<"s", "h">>>>]}

\* process_key = f"{bot_type}_{pinfo['pid']}"
process_key_of(pinfo) == identify_bot_type(pinfo) \o "_" \o ToString(pinfo.pid)

\* LocalBotDetector.detect_all_bots.  scan gives, for every pid, what
\* psutil does with the process: "absent" (not listed by process_iter), "ok",
\* "vanished" (as_dict raises NoSuchProcess, which the loop passes over) or
\* "denied" (as_dict fills exe and cwd with None after AccessDenied, on which
\* _identify_bot_type's None.lower() raises AttributeError; only the outer
\* except catches that: the loop ends and {} is returned).  process_iter
\* yields the processes in the order of their pids.
detect_all_bots(scan) ==
    LET raising == {pinfo \in HostProcesses : scan[pinfo.pid] = "denied"}
        scanned == {pinfo \in HostProcesses :
                       /\ scan[pinfo.pid] = "ok"
                       /\ \A q \in raising : pinfo.pid < q.pid}
        typed == {pinfo \in scanned : identify_bot_type(pinfo) # NoKey}
    IN /\ detected_processes' =
              [key \in {process_key_of(pinfo) : pinfo \in typed} |->
                  LET pinfo == CHOOSE q \in typed : process_key_of(q) = key
                  IN [pid |-> pinfo.pid, name |-> pinfo.name,
                      bot_type |-> identify_bot_type(pinfo), exe |-> pinfo.exe,
                      cwd |-> pinfo.cwd, cmdline |-> pinfo.cmdline,
                      process_key |-> key]]
       \* last.arg: the mapping returned; last.via: the scan
       /\ last' = CallVia("detect_all_bots", NoKey, NoKey, raising = {}, NoPort,
                          IF raising = {} THEN detected_processes' ELSE EmptyMap, scan)
       /\ UNCHANGED <<pending, env_file, groups, file, allocated_ports, port_mappings,
                      exported, instance_callbacks, effects, removed, takeover_records>>

\* LocalBotTakeover.create_takeover_instance
create_takeover_instance(process_key, group_name, instance_id, config_override) ==
    /\ IF process_key \notin DOMAIN detected_processes
       THEN /\ UNCHANGED <<groups, file, takeover_records>>
            /\ last' = CallVia("create_takeover_instance", group_name, instance_id,
                               FALSE, NoPort, process_key, NoKey)
       ELSE LET process_info == detected_processes[process_key]
                detected_config ==
                    [process_key |-> process_key,
                     pid |-> process_info.pid,
                     bot_type |-> process_info.bot_type,
                     name |-> process_info.name,
                     cwd |-> process_info.cwd,
                     cmdline |-> process_info.cmdline,
                     is_detected |-> TRUE]
                \* instance_config.update(config_override)
                instance_config ==
                    [k \in (DOMAIN detected_config) \cup (DOMAIN config_override) |->
                        IF k \in DOMAIN config_override THEN config_override[k]
                        ELSE detected_config[k]]
                with_group == IF group_name \in DOMAIN groups THEN groups
                              ELSE Put(groups, group_name, BotGroup(GroupConfig0))
                created == add_instance_ok(with_group[group_name], instance_id)
            IN /\ groups' =
                      IF created
                      THEN [with_group EXCEPT ![group_name] =
                               add_instance(@, instance_id,
                                            start(BotInstance(instance_config),
                                                  [pid |-> process_info.pid]))]
                      ELSE with_group
               /\ file' = IF created \/ group_name \notin DOMAIN groups
                          THEN save_config(groups') ELSE file
               /\ takeover_records' =
                      IF created
                      THEN Put(takeover_records, process_key,
                               [group_name |-> group_name, instance_id |-> instance_id,
                                original_process_info |-> process_info])
                      ELSE takeover_records
               /\ last' = CallVia("create_takeover_instance", group_name, instance_id,
                                  created, NoPort, process_key,
                                  IF "bot_type" \in DOMAIN config_override
                                  THEN "bot_type" ELSE NoKey)
    /\ UNCHANGED <<pending, env_file, allocated_ports, port_mappings, exported, instance_callbacks,
                   effects, removed, detected_processes>>

\* LocalBotTakeover.monitor_takeover_instances.  probe gives, for the pid of
\* every record, what psutil.Process(pid) and its memory_info() do: "alive"
\* (is_running() is True and the memory is read), "gone" (NoSuchProcess) or
\* "denied" (AccessDenied: the process exists and cannot be inspected).
monitor_takeover_instances(probe, memory_mb) ==
    LET audited(g, i) ==
            {key \in DOMAIN takeover_records :
                /\ takeover_records[key].group_name = g
                /\ takeover_records[key].instance_id = i}
        outcome(g, i) ==
            probe[takeover_records[CHOOSE key \in audited(g, i) : TRUE]
                      .original_process_info.pid]
    IN /\ groups' =
              [g \in DOMAIN groups |->
                  [groups[g] EXCEPT !.instances =
                      [i \in DOMAIN groups[g].instances |->
                          IF audited(g, i) = {} THEN groups[g].instances[i]
                          ELSE IF outcome(g, i) = "alive"
                          THEN update_resource_usage(groups[g].instances[i], 0, memory_mb)
                          ELSE stop(groups[g].instances[i])]]]
       \* last.arg: the probe; last.port: the memory read
       /\ last' = CallVia("monitor_takeover_instances", NoKey, NoKey, TRUE, memory_mb,
                          probe, NoKey)
       /\ UNCHANGED <<pending, env_file, file, allocated_ports, port_mappings, exported,
                      instance_callbacks, effects, removed, detected_processes,
                      takeover_records>>

(***************************************************************************)
(* SpecTakeover: detection and takeover into group "a"                     *)
(***************************************************************************)
\* config_override is absent or sets bot_type; at most one process of a scan
\* is absent, vanished or denied
NextTakeover ==
    \/ \E scan \in {f \in [1..3 -> {"absent", "ok", "vanished", "denied"}] :
                        Cardinality({pid \in 1..3 : f[pid] # "ok"}) <= 1} :
           detect_all_bots(scan)
    \/ \E pinfo \in HostProcesses, bot_type \in {"NapCat", "MaiBot"},
          instance_id \in InstanceIds, config_override \in {EmptyMap, [bot_type |-> "Custom"]} :
           create_takeover_instance(bot_type \o "_" \o ToString(pinfo.pid), TheGroup,
                                    instance_id, config_override)

SpecTakeover == Init /\ [][NextTakeover]_vars

(***************************************************************************)
(* SpecAudit: takeover of the processes of a full scan and the audit of    *)
(* the instances taken over                                                *)
(***************************************************************************)
NextAudit ==
    \/ detect_all_bots([pid \in 1..3 |-> "ok"])
    \/ \E process_key \in {"NapCat_1", "MaiBot_2"}, instance_id \in InstanceIds :
           create_takeover_instance(process_key, TheGroup, instance_id, EmptyMap)
    \/ \E probe \in [1..2 -> {"alive", "gone", "denied"}], memory_mb \in 1..MaxMem :
           monitor_takeover_instances(probe, memory_mb)

SpecAudit == Init /\ [][NextAudit]_vars

\* keyword occurs in the name, the executable path, the working directory
\* or an argument of the command line of the process
Occurs(process_info, keyword) ==
    \/ Contains(lower(process_info.name), keyword)
    \/ Contains(lower(process_info.exe), keyword)
    \/ Contains(lower(process_info.cwd), keyword)
    \/ \E k \in 1..Len(process_info.cmdline) :
           Contains(lower(process_info.cmdline[k]), keyword)

\* The bot type recorded for every detected process is the first entry of
\* the table with a keyword that occurs in the process.
FirstTableMatch ==
    \A key \in DOMAIN detected_processes :
        \E n \in 1..Len(BOT_PROCESS_KEYWORDS) :
            /\ detected_processes[key].bot_type = BOT_PROCESS_KEYWORDS[n].bot_type
            /\ \E keyword \in BOT_PROCESS_KEYWORDS[n].keywords :
                   Occurs(detected_processes[key], keyword)
            /\ \A o \in 1..(n - 1) : \A keyword \in BOT_PROCESS_KEYWORDS[o].keywords :
                   ~Occurs(detected_processes[key], keyword)

\* The takeover that has just succeeded left its instance running with the
\* pid of the process and bot type "NapCat" in its config, and an audit
\* record for the process.
TakenOverAsNapCat ==
    LET process_info == detected_processes[last.arg]
        inst == groups[last.group].instances[last.id]
    IN /\ inst.status = "running"
       /\ inst.is_running
       /\ inst.pid = process_info.pid
       /\ inst.config.bot_type = "NapCat"
       /\ last.arg \in DOMAIN takeover_records
       /\ takeover_records[last.arg].instance_id = last.id

\* C20 (as stated): a successful create_takeover_instance for a detected
\* process whose command line contains "napcat" leaves an instance that is
\* running with the pid of the process, with config["bot_type"] "NapCat"
\* and with a takeover record; the bot type of a detected process is the
\* first entry of the keyword table with a keyword occurring in the process.
C20_NapCatTakeover ==
    /\ FirstTableMatch
    /\ (last.op = "create_takeover_instance" /\ last.ok
          /\ (\E k \in 1..Len(detected_processes[last.arg].cmdline) :
                 Contains(lower(detected_processes[last.arg].cmdline[k]),
                          <<"n", "a", "p", "c", "a", "t">>))) => TakenOverAsNapCat

\* C20 (amended): the same, for a process in which no keyword of an earlier
\* table entry (MaiBot, MoFox_bot) occurs and a call whose config_override
\* does not set bot_type.
C20_NapCatTakeover_Amended ==
    /\ FirstTableMatch
    /\ (last.op = "create_takeover_instance" /\ last.ok
          /\ (\E k \in 1..Len(detected_processes[last.arg].cmdline) :
                 Contains(lower(detected_processes[last.arg].cmdline[k]),
                          <<"n", "a", "p", "c", "a", "t">>))
          /\ \A o \in 1..2 : \A keyword \in BOT_PROCESS_KEYWORDS[o].keywords :
                 ~Occurs(detected_processes[last.arg], keyword)
          /\ last.via # "bot_type") => TakenOverAsNapCat

\* C20 witness: the process "node NapCat" has just been taken over without
\* override while "py main.py napcat" is detected too.
C20_Witness ==
    /\ last.op = "create_takeover_instance"
    /\ last.ok
    /\ last.arg = "NapCat_1"
    /\ last.via # "bot_type"
    /\ "MaiBot_2" \in DOMAIN detected_processes
    /\ groups[last.group].instances[last.id].config.bot_type = "NapCat"

(***************************************************************************)
(* Claims on the allocator's keys and the ports written into configs       *)
(***************************************************************************)
\* C28: every allocation key of the allocator is the unique_id of an
\* instance of the registry: allocate_port_for_instance for a pair that
\* does not exist reserves nothing, and delete_instance and delete_group
\* leave no port allocated for what they deleted.
C28_KeysBelongToInstances ==
    \A key \in DOMAIN port_mappings :
        \E pr \in ExistingPairs : unique_id(pr[1], pr[2]) = key

\* C29: no two instances of the registry carry the same
\* config["ports"]["api"], and an instance's api port, when present, is the
\* port the allocator holds for that instance.
C29_ConfigPortsAgree ==
    \A p1 \in ExistingPairs :
        LET api == get_instance(p1[1], p1[2]).config.api
        IN api # NoPort =>
              /\ api = get_instance_port(p1[1], p1[2])
              /\ \A p2 \in ExistingPairs \ {p1} :
                     get_instance(p2[1], p2[2]).config.api # api

(***************************************************************************)
(* Claims on a state-file write that fails or is interrupted               *)
(***************************************************************************)
\* C24: a mutating manager operation that passes its own checks and whose
\* state-file write fails (json.dump raises on the registry it is given)
\* keeps its in-memory mutation and returns its normal success result; the
\* failure shows only in the file.
C24_WriteFailureKept ==
    [][LET op == last'.op
           g == last'.group
           i == last'.id
           Applicable ==
               CASE op = "create_group" -> g \notin DOMAIN groups
                 [] op = "create_instance" ->
                        g \in DOMAIN groups /\ i \notin DOMAIN groups[g].instances
                 [] op = "delete_instance" ->
                        g \in DOMAIN groups /\ i \in DOMAIN groups[g].instances
                 [] op = "delete_group" ->
                        g \in DOMAIN groups /\ get_running_instances(groups[g]) = {}
                 [] op = "import_config" -> last'.ok
                 [] OTHER -> FALSE
           Untouched(names) ==
               \A h \in names : h \in DOMAIN groups' /\ groups'[h] = groups[h]
           Kept ==
               CASE op = "create_group" ->
                        /\ g \in DOMAIN groups'
                        /\ groups'[g].instances = EmptyMap
                        /\ Untouched(DOMAIN groups)
                 [] op = "create_instance" ->
                        /\ i \in DOMAIN groups'[g].instances
                        /\ groups'[g].instances[i].status = "stopped"
                        /\ DOMAIN groups'[g].instances =
                               DOMAIN groups[g].instances \cup {i}
                        /\ Untouched(DOMAIN groups \ {g})
                 [] op = "delete_instance" ->
                        /\ g \in DOMAIN groups'
                        /\ DOMAIN groups'[g].instances =
                               DOMAIN groups[g].instances \ {i}
                        /\ Untouched(DOMAIN groups \ {g})
                 [] op = "delete_group" ->
                        /\ DOMAIN groups' = DOMAIN groups \ {g}
                        /\ Untouched(DOMAIN groups \ {g})
                 [] op = "import_config" -> Untouched(DOMAIN groups)
       IN (Applicable /\ ~JsonSerializable(groups')) =>
              /\ Kept
              /\ last'.ok
              /\ file'.state = "corrupt"
      ]_vars

\* C24 witness: create_instance has just returned True with the new
\* instance in the registry although the write of the state file failed.
C24_Witness ==
    /\ last.op = "create_instance"
    /\ last.ok
    /\ ~JsonSerializable(groups)
    /\ file.state = "corrupt"
    /\ last.id \in DOMAIN groups[last.group].instances

(***************************************************************************)
(* Claims on the audit of taken-over instances and on the scan             *)
(***************************************************************************)
\* C21: after monitor_takeover_instances every audited instance whose
\* original process has exited is stopped, and every audited instance whose
\* process still exists keeps its status and has the memory of its
\* resource_usage refreshed: the audit stops an instance only when its
\* process has exited.
C21_AuditFollowsProcess ==
    [][last'.op = "monitor_takeover_instances" =>
         \A key \in DOMAIN takeover_records :
             LET g == takeover_records[key].group_name
                 i == takeover_records[key].instance_id
                 exited == last'.arg[takeover_records[key].original_process_info.pid] = "gone"
             IN HasInstance(g, i) =>
                    IF exited
                    THEN groups'[g].instances[i].status = "stopped"
                    ELSE /\ groups'[g].instances[i].status = groups[g].instances[i].status
                         /\ groups'[g].instances[i].resource_usage.memory_mb = last'.port
                         /\ groups'[g].instances[i].resource_usage.update_time
      ]_vars

\* C22: the mapping detect_all_bots returns has an entry for every process
\* of the scan that could be read and matches a keyword, whatever other
\* processes of the same scan vanished or could not be read.
C22_UnreadableSkipped ==
    last.op = "detect_all_bots" =>
        \A pinfo \in HostProcesses :
            (last.via[pinfo.pid] = "ok" /\ identify_bot_type(pinfo) # NoKey) =>
                process_key_of(pinfo) \in DOMAIN last.arg

(***************************************************************************)
(* Claim on the processes the launcher spawns                              *)
(***************************************************************************)
\* C30: launch_instance leaves no spawned process untracked: when it has
\* spawned a process, the instance records the pid of that process, and the
\* instance was not already running with the pid of a live process, which
\* the new pid would replace.
C30_NoUntrackedProcess ==
    [][(last'.op = "launch_instance" /\ last'.via = "ok"
          /\ OfKinds(effects', {"spawn"}) # << >>) =>
           /\ groups'[last'.group].instances[last'.id].pid = last'.arg
           /\ ~(/\ groups[last'.group].instances[last'.id].is_running
                /\ groups[last'.group].instances[last'.id].pid # NoPid)
      ]_vars

(***************************************************************************)
(* Claims on two callers asking for the same port                          *)
(***************************************************************************)
\* Another key holds the preferred port the last allocate_port call named.
PreferredHeldByOther ==
    /\ last.op = "allocate_port"
    /\ last.arg # NoPort
    /\ \E key \in DOMAIN port_mappings \ {last.group} : port_mappings[key] = last.arg

allocate_port_check(key, preferred_port, bound) ==
    LET r == allocate_port(allocated_ports, port_mappings, key, preferred_port, bound)
    IN /\ key \notin DOMAIN pending
       /\ IF r.via \in {"existing", "none"}
          THEN /\ last' = CallVia("allocate_port", key, NoKey, r.port # NoPort, r.port,
                                  preferred_port, r.via)
               /\ UNCHANGED pending
          ELSE /\ pending' = Put(pending, key, [port |-> r.port, via |-> r.via,
                                                preferred_port |-> preferred_port])
               /\ UNCHANGED last
       /\ UNCHANGED <<groups, file, allocated_ports, port_mappings, exported,
                      instance_callbacks, effects, removed, detected_processes,
                      takeover_records, env_file>>

\* The rest of the call: self.allocated_ports.add(port);
\* self.port_mappings[instance_id] = port; return port
allocate_port_record(key) ==
    /\ key \in DOMAIN pending
    /\ LET r == Assigned(allocated_ports, port_mappings, key, pending[key].port,
                         pending[key].via)
       IN /\ allocated_ports' = r.allocated_ports
          /\ port_mappings' = r.port_mappings
          /\ last' = CallVia("allocate_port", key, NoKey, r.port # NoPort, r.port,
                             pending[key].preferred_port, r.via)
    /\ pending' = Drop(pending, key)
    /\ UNCHANGED <<groups, file, exported, instance_callbacks, effects, removed,
                   detected_processes, takeover_records, env_file>>

NextConcurrent ==
    \/ \E key \in AllocKeys, preferred_port \in {NoPort, StartPort, StartPort + 1},
          bound \in {{}, {StartPort + 1}} :
           allocate_port_check(key, preferred_port, bound)
    \/ \E key \in AllocKeys : allocate_port_record(key)
    \/ Release

SpecConcurrent == Init /\ [][NextConcurrent]_vars

\* C27: allocate_port takes no lock: the recording step of a call writes the
\* port its availability check found, whatever other calls recorded since,
\* so that two calls for distinct keys whose checks both ran before either
\* recorded leave both keys mapped to the same port.
C27_RecordsWithoutRecheck ==
    [][\A key \in DOMAIN pending :
           key \notin DOMAIN pending' =>
               /\ port_mappings' = Put(port_mappings, key, pending[key].port)
               /\ allocated_ports' = allocated_ports \cup {pending[key].port}
               /\ last'.port = pending[key].port
      ]_vars

\* C27 witness: two calls for distinct keys with the same preferred port
\* have both returned it, and port_mappings maps both keys to it.
C27_Witness ==
    /\ pending = EmptyMap
    /\ last.op = "allocate_port"
    /\ last.via = "preferred"
    /\ \E key \in DOMAIN port_mappings \ {last.group} :
           /\ port_mappings[key] = last.port
           /\ last.arg = last.port
    /\ find_conflicting_ports(port_mappings) # EmptyMap

(***************************************************************************)
(* SpecCrash: the hosting process dies inside create_group and a new       *)
(* manager is constructed.  save_config opens the state file with mode     *)
(* 'w', which truncates it, and json.dump then writes the document piece   *)
(* by piece into that same file.                                           *)
(***************************************************************************)
\* create_group(group_name, GroupConfig0) for a new name, cut short at:
\* "before" the open of the state file (the file is as it was), "during"
\* the write (the file is empty or holds the beginning of the document:
\* json.load raises on it) or "after" it (the file holds the new document);
\* then MultiBotManager.__init__ in a new process.
CrashInCreateGroup(group_name, at) ==
    /\ group_name \notin DOMAIN groups
    /\ file' = CASE at = "before" -> file
                 [] at = "during" -> CorruptFile
                 [] at = "after" ->
                        save_config(Put(groups, group_name, BotGroup(GroupConfig0)))
    /\ groups' = load_config(file')
    /\ allocated_ports' = {}
    /\ port_mappings' = EmptyMap
    /\ last' = CallVia("__init__", group_name, NoKey, TRUE, NoPort, NoPort, at)
    /\ UNCHANGED aux

NextCrash ==
    \/ CreateGroup
    \/ PortsCreateInstance
    \/ PortsDeleteInstance
    \/ \E group_name \in GroupNames, at \in {"before", "during", "after"} :
           CrashInCreateGroup(group_name, at)

SpecCrash == Init /\ [][NextCrash]_vars

\* C25: a manager constructed after a crash inside a mutating operation
\* holds the groups, instances and configs of the registry as it was before
\* that operation or as it was after it.
C25_CrashLosesOneMutation ==
    [][(last'.op = "__init__" /\ last'.via \in {"before", "during", "after"}) =>
           Snapshot(groups') \in
               {Snapshot(groups),
                Snapshot(Put(groups, last'.group, BotGroup(GroupConfig0)))}
      ]_vars

(***************************************************************************)
(* SpecEnv: BotPortManager.setup_env_file on the .env file of one bot.     *)
(* The file is the sequence of its lines, a line the tuple of its          *)
(* characters.  Neither pattern of the method matches across a line end    *)
(* (\d and . exclude it), so both substitutions work line by line.         *)
(***************************************************************************)
\* re.sub(r'PORT=\d+', f'PORT={port}', text) on one line: every occurrence
\* of PORT= followed by digits, wherever it stands in the line, has its
\* digits replaced.
RECURSIVE re_sub_port(_, _)
re_sub_port(text, port) ==
    LET digits == {"0", "1", "2", "3", "4", "5", "6", "7", "8", "9"}
        prefix == <<"P", "O", "R", "T", "=">>
        starts == {k \in 1..(Len(text) - 5) :
                      SubSeq(text, k, k + 4) = prefix /\ text[k + 5] \in digits}
    IN IF starts = {} THEN text
       ELSE LET k == SetMin(starts)
                e == SetMin({j \in (k + 5)..Len(text) :
                                j = Len(text) \/ text[j + 1] \notin digits})
            IN SubSeq(text, 1, k - 1) \o prefix \o port
                   \o re_sub_port(SubSeq(text, e + 1, Len(text)), port)

\* What setup_env_file writes: content is what it read (no line for a file
\* that does not exist), additional_vars the items of the dict in order.
setup_env_file(content, port, additional_vars) ==
    LET has(text, key) ==
            \E k \in 1..Len(text) : Contains(text[k], key \o <<"=">>)
        \* re.sub(f'{key}=.*', f'{key}={value}', text) on one line: from the
        \* first occurrence of key= to the end of the line
        re_sub_var(text, key, value) ==
            IF ~Contains(text, key \o <<"=">>) THEN text
            ELSE LET k == SetMin({j \in 1..(Len(text) - Len(key)) :
                                     SubSeq(text, j, j + Len(key)) = key \o <<"=">>})
                 IN SubSeq(text, 1, k - 1) \o key \o <<"=">> \o value
        \* content += f"\n{key}={value}\n"
        appended(text, key, value) == text \o << << >>, key \o <<"=">> \o value >>
        with_port ==
            IF has(content, <<"P", "O", "R", "T">>)
            THEN [k \in 1..Len(content) |-> re_sub_port(content[k], port)]
            ELSE appended(content, <<"P", "O", "R", "T">>, port)
        RECURSIVE with_vars(_, _)
        with_vars(text, items) ==
            IF items = << >> THEN text
            ELSE with_vars(IF has(text, items[1].key)
                           THEN [k \in 1..Len(text) |->
                                    re_sub_var(text[k], items[1].key, items[1].value)]
                           ELSE appended(text, items[1].key, items[1].value),
                           Tail(items))
    IN with_vars(with_port, additional_vars)

\* A call of setup_env_file; last.arg is what it read, last.via its
\* additional_vars and last.port its port.
SetupEnvFile(port, additional_vars) ==
    /\ env_file' = setup_env_file(env_file, port, additional_vars)
    /\ last' = CallVia("setup_env_file", NoKey, NoKey, TRUE, port, env_file,
                       additional_vars)
    /\ UNCHANGED <<groups, file, allocated_ports, port_mappings, exported,
                   instance_callbacks, effects, removed, detected_processes,
                   takeover_records, pending>>

\* The file before the first call: up to two lines out of PORT=1, XPORT=1,
\* PORT=a, LV=a, XLV=a and N=1.
InitEnv ==
    /\ groups = EmptyMap
    /\ file = NoFile
    /\ allocated_ports = {}
    /\ port_mappings = EmptyMap
    /\ last = Call("init", NoKey, NoKey, TRUE, NoPort)
    /\ exported = NoFile
    /\ instance_callbacks = NoCallbacks
    /\ effects = << >>
    /\ removed = NoInstance
    /\ detected_processes = EmptyMap
    /\ takeover_records = EmptyMap
    /\ pending = EmptyMap
    /\ env_file \in
           UNION {[1..n -> {<<"P", "O", "R", "T", "=", "1">>,
                            <<"X", "P", "O", "R", "T", "=", "1">>,
                            <<"P", "O", "R", "T", "=", "a">>,
                            <<"L", "V", "=", "a">>,
                            <<"X", "L", "V", "=", "a">>,
                            <<"N", "=", "1">>}] : n \in 0..2}

NextEnv ==
    \E port \in {<<"5">>, <<"6", "0">>},
       additional_vars \in {<< >>, <<[key |-> <<"L", "V">>, value |-> <<"b">>]>>} :
        SetupEnvFile(port, additional_vars)

SpecEnv == InitEnv /\ [][NextEnv]_vars

\* C23: after setup_env_file the file has exactly one line for the key PORT,
\* the line PORT=<port>, and for each key of additional_vars exactly one
\* line, <key>=<value>; every line the file had for another key (one that
\* ends in PORT, or one that contains a key of additional_vars) is still
\* there, verbatim and in order.
C23_EnvFileUpdated ==
    [][last'.op = "setup_env_file" =>
         LET KeyOf(line) ==
                 IF \E k \in 1..Len(line) : line[k] = "="
                 THEN SubSeq(line, 1, SetMin({k \in 1..Len(line) : line[k] = "="}) - 1)
                 ELSE line
             LinesOf(text, key) == {k \in 1..Len(text) : KeyOf(text[k]) = key}
             items == last'.via
             set_keys == {<<"P", "O", "R", "T">>} \cup {items[n].key : n \in 1..Len(items)}
             Other(line) == line # << >> /\ KeyOf(line) \notin set_keys
         IN /\ Cardinality(LinesOf(env_file', <<"P", "O", "R", "T">>)) = 1
            /\ \A k \in LinesOf(env_file', <<"P", "O", "R", "T">>) :
                   env_file'[k] = <<"P", "O", "R", "T", "=">> \o last'.port
            /\ \A n \in 1..Len(items) :
                   /\ Cardinality(LinesOf(env_file', items[n].key)) = 1
                   /\ \A k \in LinesOf(env_file', items[n].key) :
                          env_file'[k] = items[n].key \o <<"=">> \o items[n].value
            /\ SelectSeq(env_file', Other) = SelectSeq(env_file, Other)
      ]_vars

=============================================================================
